---- MODULE Spec2Model ----
(***************************************************************************)
(* Model of pulso_v2.py: the BreathingApp session controller (Start/Stop,  *)
(* Reset, pattern and slider handlers), the Tk "after" callbacks it        *)
(* schedules, and the cycle progress arithmetic of the tick handler.       *)
(*                                                                         *)
(* Numbers.  The program computes with Python floats; the model computes   *)
(* with exact rationals, written <<n, d>> with d > 0 in lowest terms.      *)
(* Callbacks.  master.after(ms, f) adds a record to `pending`; a pending   *)
(* callback may fire at any later step (the event loop gives no real-time  *)
(* guarantee), master.after_cancel(id) removes it.                         *)
(***************************************************************************)
EXTENDS Integers, Sequences, FiniteSets, TLC

VARIABLES is_running, current_phase, progress, scheduled_end,
          selected_pattern, breath_pace, session_duration,
          pending, after_ids,
          start_stop_button, breath_scale, breath_pace_label,
          session_duration_label, arc, text, circle, bell,
          calc_args, calc_result

vars == <<is_running, current_phase, progress, scheduled_end,
          selected_pattern, breath_pace, session_duration,
          pending, after_ids,
          start_stop_button, breath_scale, breath_pace_label,
          session_duration_label, arc, text, circle, bell,
          calc_args, calc_result>>

\* ------------------------------------------------------------------------
\* Bounds of the model
\* ------------------------------------------------------------------------
\* number of master.after() calls a behaviour may make
MaxAfter == 5

\* ------------------------------------------------------------------------
\* Exact rational arithmetic standing for the float operators of the source
\* ------------------------------------------------------------------------
Abs(x) == IF x < 0 THEN -x ELSE x

RECURSIVE GCD(_, _)
GCD(a, b) == IF b = 0 THEN a ELSE GCD(b, a % b)

Rat(n, d) ==
    LET s == IF d < 0 THEN -1 ELSE 1
        g == GCD(Abs(n), Abs(d))
    IN  <<(s * n) \div g, (s * d) \div g>>

Int2Rat(n) == <<n, 1>>

RAdd(a, b) ==
    LET g == GCD(a[2], b[2])
    IN  Rat(a[1] * (b[2] \div g) + b[1] * (a[2] \div g), (a[2] \div g) * b[2])

RNeg(a) == <<-a[1], a[2]>>

RSub(a, b) == RAdd(a, RNeg(b))

RMul(a, b) ==
    LET g1 == GCD(Abs(a[1]), b[2])
        g2 == GCD(Abs(b[1]), a[2])
    IN  Rat((a[1] \div g1) * (b[1] \div g2), (a[2] \div g2) * (b[2] \div g1))

RDiv(a, b) == RMul(a, Rat(b[2], b[1]))

RLess(a, b) == a[1] * b[2] < b[1] * a[2]

RLeq(a, b) == a[1] * b[2] <= b[1] * a[2]

RMin(a, b) == IF RLess(b, a) THEN b ELSE a

RMax(a, b) == IF RLess(a, b) THEN b ELSE a

\* x % 1 of a float: the fractional part, in [0, 1)
RMod1(a) == Rat(a[1] % a[2], a[2])

\* int(x): truncation toward zero
RTrunc(a) == IF a[1] >= 0 THEN a[1] \div a[2] ELSE -((-a[1]) \div a[2])

\* round(x): nearest integer, ties to the even one
RRound(a) ==
    LET f == a[1] \div a[2]
        r2 == 2 * (a[1] - f * a[2])
    IN  IF r2 < a[2] THEN f
        ELSE IF r2 > a[2] THEN f + 1
        ELSE IF f % 2 = 0 THEN f ELSE f + 1

\* ------------------------------------------------------------------------
\* Class constants
\* ------------------------------------------------------------------------
MIN_BREATH_PACE == <<2, 1>>
MAX_BREATH_PACE == <<9, 1>>
DEFAULT_BREATH_PACE == <<11, 2>>
MIN_SESSION_DURATION == <<1, 2>>
MAX_SESSION_DURATION == <<60, 1>>
DEFAULT_SESSION_DURATION == <<5, 1>>
UPDATE_INTERVAL == 16
SCALE_STEP == <<1, 2>>
None == 0

PHASE_COLORS ==
    [p \in {"inhale", "hold", "exhale"} |->
        CASE p = "inhale" -> "#3498db"
          [] p = "hold"   -> "#2ecc71"
          [] p = "exhale" -> "#e67e22"]

\* a table whose exhale entry is a copy of the inhale entry
SCALE_FACTORS_exhale_copied(phase, p) ==
    CASE phase = "inhale" -> RAdd(<<1, 5>>, RMul(<<4, 5>>, p))
      [] phase = "exhale" -> RAdd(<<1, 5>>, RMul(<<4, 5>>, p))
      [] phase = "hold"   -> <<1, 1>>

\* a table whose inhale entry lacks the base of 0.2
SCALE_FACTORS_inhale_no_base(phase, p) ==
    CASE phase = "inhale" -> RMul(<<4, 5>>, p)
      [] phase = "exhale" -> RSub(<<1, 1>>, RMul(<<4, 5>>, p))
      [] phase = "hold"   -> <<1, 1>>

SCALE_FACTORS(phase, p) ==
    CASE phase = "inhale" -> RAdd(<<1, 5>>, RMul(<<4, 5>>, p))
      [] phase = "exhale" -> RSub(<<1, 1>>, RMul(<<4, 5>>, p))
      [] phase = "hold"   -> <<1, 1>>

PatternNames == {"Balanced (1:1)", "Calm (1:2)", "Vitality (2:1)", "4-7-8 (+hold)"}

patterns ==
    [n \in PatternNames |->
        CASE n = "Balanced (1:1)" ->
                [phases |-> <<1, 1>>, uses_pace |-> TRUE, labels |-> <<"inhale", "exhale">>]
          [] n = "Calm (1:2)" ->
                [phases |-> <<1, 2>>, uses_pace |-> TRUE, labels |-> <<"inhale", "exhale">>]
          [] n = "Vitality (2:1)" ->
                [phases |-> <<2, 1>>, uses_pace |-> TRUE, labels |-> <<"inhale", "exhale">>]
          [] n = "4-7-8 (+hold)" ->
                [phases |-> <<4, 7, 8>>, uses_pace |-> FALSE,
                 labels |-> <<"inhale", "hold", "exhale">>]]

\* ------------------------------------------------------------------------
\* The application object as one record, so that a handler is a function
\* from the state before it to the state after it
\* ------------------------------------------------------------------------
Self ==
    [is_running |-> is_running, current_phase |-> current_phase,
     progress |-> progress, scheduled_end |-> scheduled_end,
     selected_pattern |-> selected_pattern, breath_pace |-> breath_pace,
     session_duration |-> session_duration,
     pending |-> pending, after_ids |-> after_ids,
     start_stop_button |-> start_stop_button, breath_scale |-> breath_scale,
     breath_pace_label |-> breath_pace_label,
     session_duration_label |-> session_duration_label,
     arc |-> arc, text |-> text, circle |-> circle, bell |-> bell]

\* the application object after a handler that leaves it in state s
Apply(s) ==
    /\ is_running' = s.is_running
    /\ current_phase' = s.current_phase
    /\ progress' = s.progress
    /\ scheduled_end' = s.scheduled_end
    /\ selected_pattern' = s.selected_pattern
    /\ breath_pace' = s.breath_pace
    /\ session_duration' = s.session_duration
    /\ pending' = s.pending
    /\ after_ids' = s.after_ids
    /\ start_stop_button' = s.start_stop_button
    /\ breath_scale' = s.breath_scale
    /\ breath_pace_label' = s.breath_pace_label
    /\ session_duration_label' = s.session_duration_label
    /\ arc' = s.arc
    /\ text' = s.text
    /\ circle' = s.circle
    /\ bell' = s.bell

Becomes(s) == Apply(s) /\ UNCHANGED <<calc_args, calc_result>>

\* the application object is in state s
Is(s) ==
    /\ is_running = s.is_running
    /\ current_phase = s.current_phase
    /\ progress = s.progress
    /\ scheduled_end = s.scheduled_end
    /\ selected_pattern = s.selected_pattern
    /\ breath_pace = s.breath_pace
    /\ session_duration = s.session_duration
    /\ pending = s.pending
    /\ after_ids = s.after_ids
    /\ start_stop_button = s.start_stop_button
    /\ breath_scale = s.breath_scale
    /\ breath_pace_label = s.breath_pace_label
    /\ session_duration_label = s.session_duration_label
    /\ arc = s.arc
    /\ text = s.text
    /\ circle = s.circle
    /\ bell = s.bell

\* ------------------------------------------------------------------------
\* Tk timer calls
\* ------------------------------------------------------------------------
\* master.after(ms, cb): the new callback gets the next identifier
after(s, ms, cb) ==
    [s EXCEPT !.after_ids = s.after_ids + 1,
              !.pending = s.pending \cup
                  {[id |-> s.after_ids + 1, ms |-> ms, cb |-> cb]}]

\* master.after_cancel(id): no effect when id is not pending any more
after_cancel(s, id) ==
    [s EXCEPT !.pending = {c \in s.pending : c.id # id}]

\* ------------------------------------------------------------------------
\* Rendering helpers
\* ------------------------------------------------------------------------
_update_circle_size(s, scale) == [s EXCEPT !.circle = scale]

\* a reset that forgets the progress
reset_visuals_keeps_progress(s) ==
    _update_circle_size(
        [s EXCEPT !.current_phase = "exhale",
                  !.arc = [extent |-> <<0, 1>>, outline |-> PHASE_COLORS["inhale"]],
                  !.text = <<"Ready">>],
        <<1, 1>>)

reset_visuals(s) ==
    _update_circle_size(
        [s EXCEPT !.progress = <<0, 1>>,
                  !.current_phase = "exhale",
                  !.arc = [extent |-> <<0, 1>>, outline |-> PHASE_COLORS["inhale"]],
                  !.text = <<"Ready">>],
        <<1, 1>>)

\* phase.capitalize()
Capitalize(phase) ==
    CASE phase = "inhale" -> "Inhale"
      [] phase = "hold"   -> "Hold"
      [] phase = "exhale" -> "Exhale"

\* f"{x:.1f}": the decimal with one digit after the point, kept as its
\* number of tenths
Fmt1(x) == RRound(RMul(x, <<10, 1>>))

\* The arc extent is kept in units of 359.99 degrees:
\* min(359.99, 359.99 * prog) = 359.99 * min(1, prog)
_update_visuals(s, prog, rem, phase) ==
    _update_circle_size(
        [s EXCEPT !.arc = [extent |-> RMin(<<1, 1>>, prog),
                           outline |-> PHASE_COLORS[phase]],
                  !.text = <<Capitalize(phase), Fmt1(rem)>>],
        SCALE_FACTORS(phase, prog))

\* ------------------------------------------------------------------------
\* Cycle progress engine
\* ------------------------------------------------------------------------
RECURSIVE SumSeq(_, _)
SumSeq(q, i) == IF i > Len(q) THEN 0 ELSE q[i] + SumSeq(q, i + 1)

\* sum(pat.phases)
sum(q) == SumSeq(q, 1)

\* a loop that never adds the duration to the offset
RECURSIVE PhaseLoop_no_offset(_, _, _, _)
PhaseLoop_no_offset(t, c, i, pat) ==
    IF i > Len(pat.phases)
    THEN <<pat.labels[Len(pat.labels)], <<1, 1>>, <<0, 1>>>>
    ELSE LET d == pat.phases[i]
         IN  IF RLess(t, Int2Rat(c + d))
             THEN LET e == RSub(t, Int2Rat(c))
                  IN  <<pat.labels[i], RDiv(e, Int2Rat(d)), RSub(Int2Rat(d), e)>>
             ELSE PhaseLoop_no_offset(t, c, i + 1, pat)

\* a loop whose phases are closed on the right
RECURSIVE PhaseLoop_closed_right(_, _, _, _)
PhaseLoop_closed_right(t, c, i, pat) ==
    IF i > Len(pat.phases)
    THEN <<pat.labels[Len(pat.labels)], <<1, 1>>, <<0, 1>>>>
    ELSE LET d == pat.phases[i]
         IN  IF RLeq(t, Int2Rat(c + d))
             THEN LET e == RSub(t, Int2Rat(c))
                  IN  <<pat.labels[i], RDiv(e, Int2Rat(d)), RSub(Int2Rat(d), e)>>
             ELSE PhaseLoop_closed_right(t, c + d, i + 1, pat)

\* a loop whose fallback returns the first label
RECURSIVE PhaseLoop_fallback_first(_, _, _, _)
PhaseLoop_fallback_first(t, c, i, pat) ==
    IF i > Len(pat.phases)
    THEN <<pat.labels[1], <<1, 1>>, <<0, 1>>>>
    ELSE LET d == pat.phases[i]
         IN  IF RLess(t, Int2Rat(c + d))
             THEN LET e == RSub(t, Int2Rat(c))
                  IN  <<pat.labels[i], RDiv(e, Int2Rat(d)), RSub(Int2Rat(d), e)>>
             ELSE PhaseLoop_fallback_first(t, c + d, i + 1, pat)

\* the for loop of _calc_phase_progress, entered at index i with offset c
RECURSIVE PhaseLoop(_, _, _, _)
PhaseLoop(t, c, i, pat) ==
    IF i > Len(pat.phases)
    THEN <<pat.labels[Len(pat.labels)], <<1, 1>>, <<0, 1>>>>
    ELSE LET d == pat.phases[i]
         IN  IF RLess(t, Int2Rat(c + d))
             THEN LET e == RSub(t, Int2Rat(c))
                  IN  <<pat.labels[i], RDiv(e, Int2Rat(d)), RSub(Int2Rat(d), e)>>
             ELSE PhaseLoop(t, c + d, i + 1, pat)

_calc_phase_progress(norm, pat, total) ==
    PhaseLoop(RMul(norm, Int2Rat(total)), 0, 1, pat)

\* cycle_time of the tick, in seconds
CycleTime(pat, pace) ==
    IF pat.uses_pace THEN RDiv(<<60, 1>>, pace) ELSE Int2Rat(sum(pat.phases))

\* an increment that takes the interval for seconds
Increment_no_ms(pat, pace) ==
    RDiv(Int2Rat(UPDATE_INTERVAL), CycleTime(pat, pace))

\* UPDATE_INTERVAL / (cycle_time * 1000): the share of a cycle one tick adds
Increment(pat, pace) ==
    RDiv(Int2Rat(UPDATE_INTERVAL), RMul(CycleTime(pat, pace), <<1000, 1>>))

\* an increment that does not wrap
Advance_no_wrap(prev, pat, pace) == RAdd(prev, Increment(pat, pace))

\* the progress after one tick
Advance(prev, pat, pace) == RMod1(RAdd(prev, Increment(pat, pace)))

\* a tick that looks at the running flag only when it reschedules
_run_breathing_cycle_late_check(s) ==
    LET pat == patterns[s.selected_pattern]
        total == sum(pat.phases)
        np == Advance(s.progress, pat, s.breath_pace)
        r == _calc_phase_progress(np, pat, total)
        s1 == [s EXCEPT !.progress = np, !.current_phase = r[1]]
        s2 == _update_visuals(s1, r[2], r[3], r[1])
    IN  IF s.is_running
        THEN after(s2, UPDATE_INTERVAL, "_run_breathing_cycle") ELSE s2

_run_breathing_cycle(s) ==
    IF ~s.is_running THEN s
    ELSE LET pat == patterns[s.selected_pattern]
             total == sum(pat.phases)
             np == Advance(s.progress, pat, s.breath_pace)
             r == _calc_phase_progress(np, pat, total)
             s1 == [s EXCEPT !.progress = np, !.current_phase = r[1]]
             s2 == _update_visuals(s1, r[2], r[3], r[1])
         IN  after(s2, UPDATE_INTERVAL, "_run_breathing_cycle")

\* ------------------------------------------------------------------------
\* Session control
\* ------------------------------------------------------------------------
stop_session(s) ==
    IF s.is_running
    THEN LET s1 == [s EXCEPT !.is_running = FALSE]
             s2 == IF s1.scheduled_end # None
                   THEN after_cancel(s1, s1.scheduled_end) ELSE s1
         IN  reset_visuals([s2 EXCEPT !.scheduled_end = None])
    ELSE reset_visuals(s)

\* a start that schedules no session-end callback
toggle_session_no_timer(s) ==
    LET s1 == [s EXCEPT !.is_running = ~s.is_running]
        s2 == [s1 EXCEPT !.start_stop_button =
                             IF s1.is_running THEN "Stop" ELSE "Start"]
    IN  IF s2.is_running
        THEN _run_breathing_cycle(s2)
        ELSE stop_session(s2)

toggle_session(s) ==
    LET s1 == [s EXCEPT !.is_running = ~s.is_running]
        s2 == [s1 EXCEPT !.start_stop_button =
                             IF s1.is_running THEN "Stop" ELSE "Start"]
    IN  IF s2.is_running
        THEN LET ms == RTrunc(RMul(RMul(s2.session_duration, <<60, 1>>), <<1000, 1>>))
                 s3 == after(s2, ms, "stop_session")
                 s4 == [s3 EXCEPT !.scheduled_end = s2.after_ids + 1]
             IN  _run_breathing_cycle(s4)
        ELSE stop_session(s2)

_handle_pattern_change(s) ==
    LET p == patterns[s.selected_pattern]
    IN  [s EXCEPT !.breath_scale = IF p.uses_pace THEN "normal" ELSE "disabled",
                  !.breath_pace_label.style =
                      IF p.uses_pace THEN "TLabel" ELSE "Dis.TLabel"]

reset_settings(s) ==
    LET s1 == stop_session(s)
        s2 == [s1 EXCEPT !.breath_pace = DEFAULT_BREATH_PACE,
                         !.session_duration = DEFAULT_SESSION_DURATION,
                         !.selected_pattern = "Balanced (1:1)",
                         !.breath_pace_label.text = <<Fmt1(DEFAULT_BREATH_PACE), "bpm">>,
                         !.session_duration_label.text =
                             <<Fmt1(DEFAULT_SESSION_DURATION), "min">>]
    IN  _handle_pattern_change(s2)

\* The value handed to _update_scale is a string.  It is kept as a record:
\* kind "num" for the text of a finite number num, "inf" and "-inf" for the
\* infinities, "nan" for not-a-number, "text" for anything float() rejects.
Num(r) == [kind |-> "num", num |-> r]

NotNum(k) == [kind |-> k, num |-> <<0, 1>>]

\* float(value) raises ValueError
FloatRaises(value) == value.kind = "text"

\* round(float(value) / step) raises OverflowError or ValueError
RoundRaises(value) == value.kind \in {"inf", "-inf", "nan"}

\* a handler that sets what it computed without clamping it
_update_scale_no_clamp(s, value, var, label, mn, mx, step, unit) ==
    IF FloatRaises(value) \/ RoundRaises(value)
    THEN [s EXCEPT ![var] = s[var], !.bell = s.bell + 1]
    ELSE LET scaled == RMul(Int2Rat(RRound(RDiv(value.num, step))), step)
         IN  [s EXCEPT ![var] = scaled,
                       ![label].text = <<Fmt1(scaled), unit>>]

\* the try block ends at the first call that raises, before any assignment;
\* the except block sets the variable to itself and rings the bell
_update_scale(s, value, var, label, mn, mx, step, unit) ==
    IF FloatRaises(value) \/ RoundRaises(value)
    THEN [s EXCEPT ![var] = s[var], !.bell = s.bell + 1]
    ELSE LET scaled == RMul(Int2Rat(RRound(RDiv(value.num, step))), step)
             clamped == RMax(mn, RMin(scaled, mx))
         IN  [s EXCEPT ![var] = clamped,
                       ![label].text = <<Fmt1(clamped), unit>>]

\* ------------------------------------------------------------------------
\* Inputs
\* ------------------------------------------------------------------------
\* slider positions: 2.25 snaps to 2.0 (tie to even), 8.89 snaps to 9.0
PaceInputs == {<<9, 4>>, <<889, 100>>}

\* slider positions: 0.5 stays, 30.01 snaps to 30.0
DurationInputs == {<<1, 2>>, <<3001, 100>>}

\* ------------------------------------------------------------------------
\* Initial state: BreathingApp.__init__
\* ------------------------------------------------------------------------
\* the object __init__ builds: the fields it sets, the widgets
\* _create_widgets makes, then reset_visuals
Constructed ==
    reset_visuals(
        [selected_pattern |-> "Balanced (1:1)",
         breath_pace |-> DEFAULT_BREATH_PACE,
         session_duration |-> DEFAULT_SESSION_DURATION,
         is_running |-> FALSE,
         current_phase |-> "exhale",
         progress |-> <<0, 1>>,
         scheduled_end |-> None,
         pending |-> {},
         after_ids |-> 0,
         start_stop_button |-> "Start",
         breath_scale |-> "normal",
         breath_pace_label |->
             [text |-> <<Fmt1(DEFAULT_BREATH_PACE), "bpm">>, style |-> "TLabel"],
         session_duration_label |->
             [text |-> <<Fmt1(DEFAULT_SESSION_DURATION), "min">>, style |-> "TLabel"],
         arc |-> [extent |-> <<0, 1>>, outline |-> PHASE_COLORS["inhale"]],
         text |-> <<"Ready">>,
         circle |-> <<1, 1>>,
         bell |-> 0])

Init ==
    /\ Is(Constructed)
    /\ calc_args = <<>>
    /\ calc_result = <<>>

\* ------------------------------------------------------------------------
\* Events
\* ------------------------------------------------------------------------
\* a click on the Start/Stop button
ClickStartStop ==
    /\ is_running \/ after_ids + 2 <= MaxAfter
    /\ Becomes(toggle_session(Self))

\* a click on the Reset button
ClickReset == Becomes(reset_settings(Self))

\* a click on a pattern radio button: the widget sets the variable, then
\* runs the command
SelectPattern ==
    \E n \in PatternNames :
        Becomes(_handle_pattern_change([Self EXCEPT !.selected_pattern = n]))

\* the user moves the pace slider (a disabled Scale ignores the pointer)
MoveBreathScale ==
    /\ breath_scale = "normal"
    /\ \E v \in PaceInputs :
           Becomes(_update_scale(Self, Num(v), "breath_pace", "breath_pace_label",
                                 MIN_BREATH_PACE, MAX_BREATH_PACE, SCALE_STEP, "bpm"))

\* the user moves the duration slider
MoveSessionScale ==
    \E v \in DurationInputs :
        Becomes(_update_scale(Self, Num(v), "session_duration", "session_duration_label",
                              MIN_SESSION_DURATION, MAX_SESSION_DURATION,
                              SCALE_STEP, "min"))

\* The event loop runs timer callbacks in the order of their deadlines.
\* Identifiers grow with the time of the after() call, so a callback that
\* was scheduled earlier with a delay that is not longer is due first.
Due(c) == \A o \in pending : ~(o.id < c.id /\ o.ms <= c.ms)

\* a pending tick callback can run now
TickReady(c) ==
    /\ c \in pending
    /\ Due(c)
    /\ c.cb = "_run_breathing_cycle"
    /\ ~is_running \/ after_ids + 1 <= MaxAfter

\* the event loop runs a pending tick callback
FireTick(c) ==
    /\ TickReady(c)
    /\ Becomes(_run_breathing_cycle([Self EXCEPT !.pending = pending \ {c}]))

\* the event loop runs a pending session-end callback
FireEnd(c) ==
    /\ c \in pending
    /\ Due(c)
    /\ c.cb = "stop_session"
    /\ Becomes(stop_session([Self EXCEPT !.pending = pending \ {c}]))

TickFires == \E c \in pending : FireTick(c)

EndFires == \E c \in pending : FireEnd(c)

Next ==
    \/ ClickStartStop
    \/ ClickReset
    \/ SelectPattern
    \/ MoveBreathScale
    \/ MoveSessionScale
    \/ TickFires
    \/ EndFires

Spec == Init /\ [][Next]_vars

\* ------------------------------------------------------------------------
\* Sessions under way.  A session started with pattern n at the default
\* pace runs k ticks when nothing else happens: the state after them is
\* the state after the start with k - 1 further increments of progress
\* (in exact arithmetic ((p + a) % 1 + a) % 1 = (p + 2a) % 1), one
\* session-end callback and one tick callback pending.  Callback
\* identifiers are opaque handles and are given here as 1 and 2.
\* ------------------------------------------------------------------------
\* tick counts: 250 ticks of 4-7-8 reach the inhale/hold boundary 4/19,
\* tick 682 wraps a paced cycle at 5.5 bpm, tick 1188 wraps the 4-7-8 cycle
TickCounts == {249, 681, 1187}

Underway(n, k) ==
    LET s0 == _handle_pattern_change([Constructed EXCEPT !.selected_pattern = n])
        pat == patterns[n]
        inc == Increment(pat, s0.breath_pace)
        s1 == [s0 EXCEPT !.is_running = TRUE, !.start_stop_button = "Stop"]
        ms == RTrunc(RMul(RMul(s1.session_duration, <<60, 1>>), <<1000, 1>>))
        s2 == [after(s1, ms, "stop_session") EXCEPT !.scheduled_end = 1]
        s3 == [s2 EXCEPT !.progress = RMod1(RMul(Int2Rat(k - 1), inc))]
    IN  _run_breathing_cycle(s3)

InitUnderway ==
    /\ \E n \in PatternNames, k \in TickCounts : Is(Underway(n, k))
    /\ calc_args = <<>>
    /\ calc_result = <<>>

SpecUnderway == InitUnderway /\ [][Next]_vars

\* ------------------------------------------------------------------------
\* A running session that the user leaves alone: only the callbacks act.
\* The event loop runs every callback that is due, so both kinds of
\* callback are taken when they stay enabled.  The sessions are a first
\* session just started, a session under way, a session restarted after a
\* click on Stop and a session restarted after a click on Reset (the last
\* two with callbacks of the earlier session still pending).
\* ------------------------------------------------------------------------
Started(n) ==
    toggle_session(_handle_pattern_change([Constructed EXCEPT !.selected_pattern = n]))

RestartedAfterStop(n) == toggle_session(toggle_session(Started(n)))

RestartedAfterReset(n) == toggle_session(reset_settings(Started(n)))

InitQuiet ==
    /\ \E n \in PatternNames :
           \/ Is(Started(n))
           \/ Is(RestartedAfterStop(n))
           \/ Is(RestartedAfterReset(n))
           \/ \E k \in TickCounts : Is(Underway(n, k))
    /\ calc_args = <<>>
    /\ calc_result = <<>>

NextQuiet ==
    \/ TickFires
    \/ EndFires

\* Weak fairness of TickFires, written out: TickFires is enabled exactly
\* when some tick callback is ready, and a tick that fires always changes
\* pending.
TickFairness ==
    \/ []<>(~(\E c \in pending : TickReady(c)))
    \/ []<><<TickFires>>_vars

SpecQuiet ==
    InitQuiet /\ [][NextQuiet]_vars /\ WF_vars(EndFires) /\ TickFairness

\* ------------------------------------------------------------------------
\* _calc_phase_progress on its own: the arguments are drawn from the
\* pattern table and a grid of progress values that holds every phase
\* boundary of every pattern
\* ------------------------------------------------------------------------
LCM(a, b) == (a \div GCD(a, b)) * b

RECURSIVE LCMTotals(_)
LCMTotals(N) ==
    IF N = {} THEN 1
    ELSE LET n == CHOOSE x \in N : TRUE
         IN  LCM(sum(patterns[n].phases), LCMTotals(N \ {n}))

\* refinement of the grid
GridScale == 1

GridDen == LCMTotals(PatternNames) * GridScale

InitCalc ==
    /\ Is(Constructed)
    /\ calc_args \in {<<Rat(k, GridDen), n>> : k \in 0..(GridDen - 1), n \in PatternNames}
    /\ calc_result = <<>>

Calc ==
    /\ calc_result = <<>>
    /\ calc_result' = _calc_phase_progress(calc_args[1], patterns[calc_args[2]],
                                           sum(patterns[calc_args[2]].phases))
    /\ UNCHANGED <<is_running, current_phase, progress, scheduled_end,
                   selected_pattern, breath_pace, session_duration,
                   pending, after_ids, start_stop_button, breath_scale,
                   breath_pace_label, session_duration_label, arc, text,
                   circle, bell, calc_args>>

NextCalc == Calc

SpecCalc == InitCalc /\ [][NextCalc]_vars

\* _calc_phase_progress called with a norm that may have reached or passed 1,
\* as a rounded progress could: the grid goes Overshoot points beyond 1
Overshoot == 2

InitCalcAny ==
    /\ Is(Constructed)
    /\ calc_args \in {<<Rat(k, GridDen), n>> :
                          k \in 0..(GridDen + Overshoot), n \in PatternNames}
    /\ calc_result = <<>>

SpecCalcAny == InitCalcAny /\ [][NextCalc]_vars

\* ------------------------------------------------------------------------
\* _update_scale on its own: the handler is called with any value, also
\* with values the Scale widget would not report, and calc_args keeps the
\* arguments of the last call
\* ------------------------------------------------------------------------
\* number of times the bell may ring
MaxBell == 2

ScaleValues ==
    {Num(<<-1, 1>>), Num(<<0, 1>>), Num(<<19, 10>>), Num(<<9, 4>>),
     Num(<<37, 10>>), Num(<<11, 2>>), Num(<<889, 100>>), Num(<<93, 10>>),
     Num(<<3001, 100>>), Num(<<100, 1>>),
     NotNum("inf"), NotNum("-inf"), NotNum("nan"), NotNum("text")}

InitScale ==
    /\ Is(Constructed)
    /\ calc_args = <<>>
    /\ calc_result = <<>>

CallBreathScale ==
    \E v \in ScaleValues :
        /\ (FloatRaises(v) \/ RoundRaises(v)) => bell < MaxBell
        /\ Apply(_update_scale(Self, v, "breath_pace", "breath_pace_label",
                               MIN_BREATH_PACE, MAX_BREATH_PACE, SCALE_STEP, "bpm"))
        /\ calc_args' = <<"breath_pace", v, MIN_BREATH_PACE, MAX_BREATH_PACE>>
        /\ UNCHANGED calc_result

CallSessionScale ==
    \E v \in ScaleValues :
        /\ (FloatRaises(v) \/ RoundRaises(v)) => bell < MaxBell
        /\ Apply(_update_scale(Self, v, "session_duration", "session_duration_label",
                               MIN_SESSION_DURATION, MAX_SESSION_DURATION,
                               SCALE_STEP, "min"))
        /\ calc_args' = <<"session_duration", v, MIN_SESSION_DURATION,
                          MAX_SESSION_DURATION>>
        /\ UNCHANGED calc_result

CallReset ==
    /\ Apply(reset_settings(Self))
    /\ calc_args' = <<>>
    /\ UNCHANGED calc_result

NextScale ==
    \/ CallBreathScale
    \/ CallSessionScale
    \/ CallReset

SpecScale == InitScale /\ [][NextScale]_vars

TypeOK ==
    /\ is_running \in BOOLEAN
    /\ current_phase \in {"inhale", "hold", "exhale"}
    /\ selected_pattern \in PatternNames
    /\ after_ids \in 0..MaxAfter

\* ------------------------------------------------------------------------
\* Properties
\* ------------------------------------------------------------------------
EndCallbacks(P) == {c \in P : c.cb = "stop_session"}

TickCallbacks(P) == {c \in P : c.cb = "_run_breathing_cycle"}

\* a session is stopped in this step
SessionStops == is_running /\ ~is_running'

\* a session is started in this step
SessionStarts == ~is_running /\ is_running'

\* C1: once a session has been stopped (Stop button, Reset or the
\* session-end timer), no session-end callback is pending and scheduled_end
\* is None.
C1_StoppedHasNoEndCallback ==
    ~is_running => (scheduled_end = None /\ EndCallbacks(pending) = {})

\* C2: a session-end callback that fires while a session is running is the
\* one that session's start scheduled (the one scheduled_end names), so the
\* timer never ends a session that did not schedule it.
C2_TimerEndsOwnSession ==
    [][\A c \in pending : (is_running /\ FireEnd(c)) => c.id = scheduled_end]_vars

\* C3: whenever no session is running, progress is 0 and current_phase is
\* "exhale"; and the tick a start runs advances progress from 0.
C3_IdleIsReset ==
    /\ [](~is_running => (progress = <<0, 1>> /\ current_phase = "exhale"))
    /\ [][SessionStarts =>
            progress' = Advance(<<0, 1>>, patterns[selected_pattern], breath_pace)]_vars

\* a session that ticked at least once after its start has been stopped
C3_Witness ==
    /\ ~is_running
    /\ after_ids >= 3
    /\ progress = <<0, 1>>
    /\ text = <<"Ready">>

\* the labels of a pattern
Labels(pat) == {pat.labels[i] : i \in 1..Len(pat.labels)}

\* the sum of the first i durations
Prefix(q, i) == sum(SubSeq(q, 1, i))

\* phase i is the first one with t < c + durations[i]
IsFirstPhase(t, pat, i) ==
    /\ RLess(t, Int2Rat(Prefix(pat.phases, i)))
    /\ \A j \in 1..(i - 1) : ~RLess(t, Int2Rat(Prefix(pat.phases, j)))

\* C4: current_phase is one of the labels of the selected pattern.
C4_PhaseIsLabelOfSelected ==
    current_phase \in Labels(patterns[selected_pattern])

\* C5: progress lies in [0, 1).
C5_ProgressInUnitInterval ==
    RLeq(<<0, 1>>, progress) /\ RLess(progress, <<1, 1>>)

\* a tick of a running session has wrapped progress around 1
C5_Witness ==
    /\ is_running
    /\ after_ids >= 3
    /\ progress # <<0, 1>>
    /\ RLess(progress, Increment(patterns[selected_pattern], breath_pace))

\* C6: for every pattern and every progress in [0, 1) the result of
\* _calc_phase_progress carries the label of the first phase i with
\* t < c + durations[i], a label of the pattern, and a fraction in [0, 1].
C6_PhaseResolutionTotal ==
    calc_result # <<>> =>
        LET pat == patterns[calc_args[2]]
            t == RMul(calc_args[1], Int2Rat(sum(pat.phases)))
        IN  /\ \E i \in 1..Len(pat.phases) :
                   IsFirstPhase(t, pat, i) /\ calc_result[1] = pat.labels[i]
            /\ calc_result[1] \in Labels(pat)
            /\ RLeq(<<0, 1>>, calc_result[2])
            /\ RLeq(calc_result[2], <<1, 1>>)

\* a progress inside the middle phase of the three-phase pattern is resolved
C6_Witness ==
    /\ calc_result # <<>>
    /\ calc_args = <<<<1, 2>>, "4-7-8 (+hold)">>
    /\ calc_result[1] = "hold"

\* C7: a progress exactly at the start of phase i resolves to phase i with
\* fraction 0 and the whole duration of phase i remaining.
C7_BoundaryGoesToNextPhase ==
    calc_result # <<>> =>
        LET pat == patterns[calc_args[2]]
            t == RMul(calc_args[1], Int2Rat(sum(pat.phases)))
        IN  \A i \in 1..Len(pat.phases) :
                t = Int2Rat(Prefix(pat.phases, i - 1)) =>
                    calc_result = <<pat.labels[i], <<0, 1>>, Int2Rat(pat.phases[i])>>

\* pattern [4,7,8] at progress 4/19 gives ("hold", 0, 7)
C7_Witness ==
    /\ calc_args = <<<<4, 19>>, "4-7-8 (+hold)">>
    /\ calc_result = <<"hold", <<0, 1>>, <<7, 1>>>>

\* the remaining time of the phase in seconds, as C8 states it
RemainingSeconds(norm, pat, pace) ==
    LET total == sum(pat.phases)
        t == RMul(norm, Int2Rat(total))
        i == CHOOSE k \in 1..Len(pat.phases) : IsFirstPhase(t, pat, k)
        r == RSub(Int2Rat(pat.phases[i]),
                  RSub(t, Int2Rat(Prefix(pat.phases, i - 1))))
    IN  IF pat.uses_pace
        THEN RMul(r, RDiv(CycleTime(pat, pace), Int2Rat(total)))
        ELSE r

\* C8: the remaining time a tick shows is in seconds: durations[i] - (t - c)
\* when uses_pace is false, and that value scaled by cycleSeconds /
\* sum(phases) when uses_pace is true.
C8_RemainingInSeconds ==
    [][(is_running' /\ progress' # progress) =>
          text' = <<Capitalize(current_phase'),
                    Fmt1(RemainingSeconds(progress', patterns[selected_pattern'],
                                          breath_pace'))>>]_vars

\* C9: a tick callback that fires while the running flag is cleared leaves
\* progress and current_phase alone and schedules nothing; one that fires
\* while the flag is set schedules exactly one further tick.
C9_TickObservesFlag ==
    [][\A c \in pending : FireTick(c) =>
          IF is_running
          THEN /\ after_ids' = after_ids + 1
               /\ pending' \ pending =
                      {[id |-> after_ids + 1, ms |-> UPDATE_INTERVAL,
                        cb |-> "_run_breathing_cycle"]}
          ELSE /\ progress' = progress
               /\ current_phase' = current_phase
               /\ after_ids' = after_ids
               /\ pending' = pending \ {c}]_vars

\* a session was started and stopped and its last tick callback has fired
\* with the flag cleared
C9_Witness ==
    /\ ~is_running
    /\ after_ids >= 2
    /\ TickCallbacks(pending) = {}

\* C10: in the state right after a session is stopped, no tick callback
\* remains scheduled.
C10_StopCancelsTick ==
    [][SessionStops => TickCallbacks(pending') = {}]_vars

\* the value a variable holds after the step, looked up by its name
VarAfter(name) == IF name = "breath_pace" THEN breath_pace' ELSE session_duration'

\* the value of [mn, mx] on the step grid nearest to a value that is not
\* not-a-number and not text
Nearest(value, mn, mx) ==
    CASE value.kind = "inf"  -> mx
      [] value.kind = "-inf" -> mn
      [] value.kind = "num"  ->
            RMax(mn, RMin(RMul(Int2Rat(RRound(RDiv(value.num, SCALE_STEP))),
                               SCALE_STEP), mx))

\* a value that is not a number of the slider's range
InvalidInput(value, mn, mx) ==
    \/ value.kind # "num"
    \/ RLess(value.num, mn)
    \/ RLess(mx, value.num)

\* C11: a call of _update_scale with an invalid value sets the variable to
\* the nearest valid value within [min, max] (to a value within [min, max]
\* when the input has no nearest one) and rings the bell.
C11_InvalidInputClampedWithBell ==
    [][(calc_args' # <<>> /\ InvalidInput(calc_args'[2], calc_args'[3], calc_args'[4])) =>
          /\ bell' = bell + 1
          /\ RLeq(calc_args'[3], VarAfter(calc_args'[1]))
          /\ RLeq(VarAfter(calc_args'[1]), calc_args'[4])
          /\ calc_args'[2].kind \in {"num", "inf", "-inf"} =>
                 VarAfter(calc_args'[1]) =
                     Nearest(calc_args'[2], calc_args'[3], calc_args'[4])]_vars

\* C12: the breath pace lies in [MIN_BREATH_PACE, MAX_BREATH_PACE], the
\* session duration in [MIN_SESSION_DURATION, MAX_SESSION_DURATION], and the
\* cycle time a tick divides by is greater than 0 for every pattern.
C12_SettingsInRange ==
    /\ RLeq(MIN_BREATH_PACE, breath_pace)
    /\ RLeq(breath_pace, MAX_BREATH_PACE)
    /\ RLeq(MIN_SESSION_DURATION, session_duration)
    /\ RLeq(session_duration, MAX_SESSION_DURATION)
    /\ \A n \in PatternNames : RLess(<<0, 1>>, CycleTime(patterns[n], breath_pace))

\* a value above the range was handed to the pace handler and clamped
C12_Witness ==
    /\ calc_args # <<>>
    /\ calc_args[1] = "breath_pace"
    /\ calc_args[2] = Num(<<100, 1>>)
    /\ breath_pace = MAX_BREATH_PACE

\* a tick of a running session happens in this step
TickStep == is_running' /\ progress' # progress

\* the phase fraction of the state after the step
FractionAfter ==
    _calc_phase_progress(progress', patterns[selected_pattern'],
                         sum(patterns[selected_pattern'].phases))[2]

\* C13: on every tick the resolved label is inhale, hold or exhale, the
\* circle is scaled by 0.2 + 0.8 p for inhale, 1.0 - 0.8 p for exhale and
\* 1.0 for hold, p being the phase fraction, and the scale lies in
\* [0.2, 1.0].
C13_ScaleFollowsPhase ==
    /\ [](RLeq(<<1, 5>>, circle) /\ RLeq(circle, <<1, 1>>))
    /\ [][TickStep =>
            /\ current_phase' \in {"inhale", "hold", "exhale"}
            /\ LET p == FractionAfter
               IN  circle' =
                       CASE current_phase' = "inhale" -> Rat(p[2] + 4 * p[1], 5 * p[2])
                         [] current_phase' = "exhale" -> Rat(5 * p[2] - 4 * p[1], 5 * p[2])
                         [] current_phase' = "hold"   -> <<1, 1>>]_vars

\* a tick of a running session has resolved to the hold phase
C13_Witness ==
    /\ is_running
    /\ after_ids >= 3
    /\ current_phase = "hold"
    /\ circle = <<1, 1>>

\* C14: when the callbacks fire and the user does nothing more, a running
\* session leads to a state that is kept for good, with is_running false,
\* progress 0 and no tick callback left to reschedule.
C14_SessionEventuallyStops ==
    is_running ~> [](/\ ~is_running
                     /\ progress = <<0, 1>>
                     /\ TickCallbacks(pending) = {})

\* the session-end timer has stopped a session that had ticked and the last
\* tick callback has fired
C14_Witness ==
    /\ ~is_running
    /\ after_ids >= 3
    /\ progress = <<0, 1>>
    /\ scheduled_end = None
    /\ pending = {}

\* C15: at most one tick callback is pending.
C15_OneTickChain == Cardinality(TickCallbacks(pending)) <= 1

\* C16: the Start/Stop button reads "Stop" exactly when a session is
\* running and "Start" exactly when none is.
C16_ButtonShowsRunning ==
    /\ start_stop_button = "Stop" <=> is_running
    /\ start_stop_button = "Start" <=> ~is_running

\* the label that follows a label in the cyclic order of a pattern
NextLabel(pat, label) ==
    LET i == CHOOSE k \in 1..Len(pat.labels) : pat.labels[k] = label
    IN  pat.labels[(i % Len(pat.labels)) + 1]

\* current_phase is the phase of progress under the selected pattern, as it
\* is when the pattern was not changed since the last tick
PhaseIsCurrent ==
    current_phase =
        _calc_phase_progress(progress, patterns[selected_pattern],
                             sum(patterns[selected_pattern].phases))[1]

\* C17: the tick a start runs resolves to the first label of the pattern,
\* and a later tick of the session, the pattern being the one of the tick
\* before, keeps current_phase or moves it to the next label of the pattern
\* in cyclic order.
C17_PhasesInOrder ==
    [][/\ SessionStarts => current_phase' = patterns[selected_pattern].labels[1]
       /\ (is_running /\ TickStep /\ PhaseIsCurrent) =>
              \/ current_phase' = current_phase
              \/ current_phase' = NextLabel(patterns[selected_pattern], current_phase)]_vars

\* a tick has moved a 4-7-8 session from inhale to hold at the boundary 4/19
C17_Witness ==
    /\ is_running
    /\ after_ids >= 3
    /\ selected_pattern = "4-7-8 (+hold)"
    /\ progress = <<4, 19>>
    /\ current_phase = "hold"

\* C18: the scale factor has no jump at a phase change: the scale of the
\* resolved phase at fraction 1 equals the scale of the cyclically next
\* phase of the pattern at fraction 0.
C18_ScaleContinuous ==
    calc_result # <<>> =>
        LET pat == patterns[calc_args[2]]
        IN  SCALE_FACTORS(calc_result[1], <<1, 1>>) =
                SCALE_FACTORS(NextLabel(pat, calc_result[1]), <<0, 1>>)

\* the last phase of the three-phase pattern, whose next phase is the first
C18_Witness ==
    /\ calc_result # <<>>
    /\ calc_args[2] = "4-7-8 (+hold)"
    /\ calc_result[1] = "exhale"
    /\ NextLabel(patterns[calc_args[2]], calc_result[1]) = "inhale"

\* C19: when t = norm * total reaches or exceeds the sum of the durations,
\* _calc_phase_progress returns the last label with fraction 1 and remaining
\* time 0; for a norm below 1 some phase condition is satisfied and the
\* fallback is not taken.
C19_FallbackIsLastPhase ==
    calc_result # <<>> =>
        LET pat == patterns[calc_args[2]]
            total == sum(pat.phases)
            t == RMul(calc_args[1], Int2Rat(total))
        IN  /\ RLeq(Int2Rat(total), t) =>
                   calc_result = <<pat.labels[Len(pat.labels)], <<1, 1>>, <<0, 1>>>>
            /\ RLess(calc_args[1], <<1, 1>>) =>
                   /\ \E i \in 1..Len(pat.phases) : IsFirstPhase(t, pat, i)
                   /\ RLess(calc_result[2], <<1, 1>>)

\* a norm of exactly 1 under the three-phase pattern takes the fallback
C19_Witness ==
    /\ calc_args = <<<<1, 1>>, "4-7-8 (+hold)">>
    /\ calc_result = <<"exhale", <<1, 1>>, <<0, 1>>>>

====
